---- MODULE Spec2Model ----
(***************************************************************************)
(* Model of src/app2.py: the CSS colour parser, the colour-space converter, *)
(* the intensity estimator and the two aggregations (website and image).    *)
(*                                                                          *)
(* Text is a sequence of one-character strings.  Floating point values are  *)
(* fixed point integers: a luminance or a normalised channel is counted in  *)
(* units of 10^-6, a carbon intensity in units of 10^-8 (so the baseline    *)
(* 0.10 is 10^7 and the upper clamp 1 is 10^8).                             *)
(***************************************************************************)
EXTENDS Integers, Sequences, FiniteSets, Bags, TLC

VARIABLES
    fn,          \* the function of app2.py that is being run
    pc,          \* its position
    arg,         \* its argument
    ret,         \* what it returned (or raised)
    hex_color,   \* the token handed to relative_luminance / estimate_carbon_intensity
    raw_hex,     \* extract_colors_from_css: the matches of the hex pattern
    rgb_colors,  \* extract_colors_from_css: the groups of the rgb(...) pattern
    valid_hex,   \* extract_colors_from_css: the list being built
    response,    \* calculate_digital_carbon: the root page, once fetched
    colors,      \* the colour list of an analysis, as a bag (a list up to order)
    k,           \* loop index (1-based) of the loop being run
    fetchLog     \* calculate_digital_carbon: the outcome of each stylesheet fetch so far

vars == <<fn, pc, arg, ret, hex_color, raw_hex, rgb_colors, valid_hex,
          response, colors, k, fetchLog>>

----------------------------------------------------------------------------
(* Bounds of the model.                                                     *)

\* rgb components are drawn from -NegChan .. MaxChan
NegChan == 16
MaxChan == 257
\* a CSS text handed to the parser is made of at most MaxItems items
MaxItems == 2
\* tags with a style attribute on the root page
MaxTags == 2
\* <link rel="stylesheet"> elements on the root page
MaxLinks == 2
\* palette entries read back from the quantized image
MaxPalette == 2

----------------------------------------------------------------------------
(* Python values.                                                           *)

None == [some |-> FALSE]
Some(v) == [some |-> TRUE, val |-> v]
NoValue == [kind |-> "none"]
NoText == <<>>

Digits == <<"0", "1", "2", "3", "4", "5", "6", "7", "8", "9">>
LowerHex == Digits \o <<"a", "b", "c", "d", "e", "f">>
UpperHex == Digits \o <<"A", "B", "C", "D", "E", "F">>
Whitespace == {" ", "\t", "\n", "\r", "\f"}

IsHexDigit(c) == \E i \in 1..16 : LowerHex[i] = c \/ UpperHex[i] = c
DigitValue(c) == (CHOOSE i \in 1..16 : LowerHex[i] = c \/ UpperHex[i] = c) - 1
IsDigitIn(c, base) == IsHexDigit(c) /\ DigitValue(c) < base

RECURSIVE lstrip(_, _)
lstrip(s, chars) ==
    IF s # <<>> /\ Head(s) \in chars THEN lstrip(Tail(s), chars) ELSE s

RECURSIVE rstrip(_, _)
rstrip(s, chars) ==
    IF s # <<>> /\ s[Len(s)] \in chars
    THEN rstrip(SubSeq(s, 1, Len(s) - 1), chars)
    ELSE s

strip(s) == rstrip(lstrip(s, Whitespace), Whitespace)

RECURSIVE DigitsValue(_, _, _)
DigitsValue(v, base, acc) ==
    IF v = <<>> THEN acc
    ELSE IF Head(v) = "_" THEN DigitsValue(Tail(v), base, acc)
    ELSE DigitsValue(Tail(v), base, acc * base + DigitValue(Head(v)))

\* The digits of an int() literal: single underscores between digits only.
valid_digits(v, base) ==
    /\ v # <<>>
    /\ \A i \in 1..Len(v) :
          \/ IsDigitIn(v[i], base)
          \/ v[i] = "_" /\ 1 < i /\ i < Len(v) /\ v[i - 1] # "_"

parse_digits(v, base) ==
    IF valid_digits(v, base)
    THEN [ok |-> TRUE, val |-> DigitsValue(v, base, 0)]
    ELSE [ok |-> FALSE]

\* Base 16 takes an optional 0x prefix, and one underscore after it.
drop_prefix(u, base) ==
    IF base = 16 /\ Len(u) >= 2 /\ u[1] = "0" /\ u[2] \in {"x", "X"}
    THEN IF Len(u) >= 3 /\ u[3] = "_" THEN SubSeq(u, 4, Len(u)) ELSE SubSeq(u, 3, Len(u))
    ELSE u

drop_sign(t) == IF t # <<>> /\ Head(t) \in {"+", "-"} THEN Tail(t) ELSE t

apply_sign(t, n) ==
    IF n.ok /\ t # <<>> /\ Head(t) = "-" THEN [ok |-> TRUE, val |-> 0 - n.val] ELSE n

signed_int(t, base) == apply_sign(t, parse_digits(drop_prefix(drop_sign(t), base), base))

\* int(s) and int(s, 16) on a str: surrounding whitespace, an optional sign, then
\* the digits. [ok |-> FALSE] is ValueError.
int(s, base) == signed_int(strip(s), base)

RECURSIVE HexDigitsOf(_)
HexDigitsOf(n) ==
    IF n < 16 THEN <<LowerHex[n + 1]>>
    ELSE HexDigitsOf(n \div 16) \o <<LowerHex[(n % 16) + 1]>>

\* '{:x}'.format(n): no zero fill.
format_02x_nopad(n) ==
    IF n < 0 THEN <<"-">> \o HexDigitsOf(0 - n) ELSE HexDigitsOf(n)

\* '{:02x}'.format(n): lowercase hex, sign first, zero filled to width 2.
format_02x(n) ==
    IF n < 0 THEN <<"-">> \o HexDigitsOf(0 - n)
    ELSE IF n < 16 THEN <<"0">> \o HexDigitsOf(n)
    ELSE HexDigitsOf(n)

\* '#{:02x}{:02x}{:02x}'.format(r, g, b)
format_hex(rgb) ==
    <<"#">> \o format_02x(rgb[1]) \o format_02x(rgb[2]) \o format_02x(rgb[3])

----------------------------------------------------------------------------
(* Colour space converter and intensity estimator.                          *)

\* ((c/255 + 0.055) / 1.055) ** 2.4 in units of 10^-5, for c = 11 .. 255: the
\* branch np.where takes when c/255 > 0.03928.
GammaTable == <<
    335, 368, 402, 439, 478, 518, 561, 605, 651, 700, 750, 802,
    857, 913, 972, 1033, 1096, 1161, 1229, 1298, 1370, 1444, 1521, 1600,
    1681, 1764, 1850, 1938, 2029, 2122, 2217, 2315, 2416, 2519, 2624, 2732,
    2843, 2956, 3071, 3190, 3310, 3434, 3560, 3689, 3820, 3955, 4092, 4231,
    4374, 4519, 4667, 4817, 4971, 5127, 5286, 5448, 5613, 5781, 5951, 6125,
    6301, 6480, 6663, 6848, 7036, 7227, 7421, 7619, 7819, 8022, 8228, 8438,
    8650, 8866, 9084, 9306, 9531, 9759, 9990, 10224, 10462, 10702, 10946, 11193,
    11444, 11697, 11954, 12214, 12477, 12744, 13014, 13287, 13563, 13843, 14126, 14413,
    14703, 14996, 15293, 15593, 15896, 16203, 16513, 16827, 17144, 17465, 17789, 18116,
    18447, 18782, 19120, 19462, 19807, 20156, 20508, 20864, 21223, 21586, 21953, 22323,
    22697, 23074, 23455, 23840, 24228, 24620, 25016, 25415, 25818, 26225, 26636, 27050,
    27468, 27889, 28315, 28744, 29177, 29614, 30054, 30499, 30947, 31399, 31855, 32314,
    32778, 33245, 33716, 34191, 34670, 35153, 35640, 36131, 36625, 37124, 37626, 38133,
    38643, 39157, 39676, 40198, 40724, 41254, 41789, 42327, 42869, 43415, 43966, 44520,
    45079, 45641, 46208, 46778, 47353, 47932, 48515, 49102, 49693, 50289, 50888, 51492,
    52100, 52712, 53328, 53948, 54572, 55201, 55834, 56471, 57112, 57758, 58408, 59062,
    59720, 60383, 61050, 61721, 62396, 63076, 63760, 64448, 65141, 65837, 66539, 67244,
    67954, 68669, 69387, 70110, 70838, 71569, 72306, 73046, 73791, 74540, 75294, 76052,
    76815, 77582, 78354, 79130, 79910, 80695, 81485, 82279, 83077, 83880, 84687, 85499,
    86316, 87137, 87962, 88792, 89627, 90466, 91310, 92158, 93011, 93869, 94731, 95597,
    96469, 97345, 98225, 99110, 100000
    >>

\* One channel through the sRGB transfer function, in units of 10^-5.
Linear(c) ==
    IF c <= 10 THEN (c * 10000000) \div (255 * 1292) ELSE GammaTable[c - 10]

\* "".join([c * 2 for c in hex_color])
RECURSIVE double_each(_)
double_each(s) ==
    IF s = <<>> THEN <<>> ELSE <<Head(s), Head(s)>> \o double_each(Tail(s))

lstrip_marker_and_space(s) == lstrip(strip(s), {"#"})

\* hex_color.lstrip("#")
lstrip_marker(s) == lstrip(s, {"#"})

\* Three parsed components as one triple; [ok |-> FALSE] if one did not parse.
to_rgb(ints) ==
    IF \A i \in 1..3 : ints[i].ok
    THEN [ok |-> TRUE, rgb |-> <<ints[1].val, ints[2].val, ints[3].val>>]
    ELSE [ok |-> FALSE]

\* 3-digit shorthand doubled.
expand(body) == IF Len(body) = 3 THEN double_each(body) ELSE body

parse_body(body) ==
    IF Len(body) \notin {3, 6} THEN [ok |-> FALSE]
    ELSE to_rgb([i \in 1..3 |-> int(SubSeq(expand(body), 2 * i - 1, 2 * i), 16)])

\* The channel parser of relative_luminance: [ok |-> FALSE] where it returns 0.0.
parse_channels(token) == parse_body(lstrip_marker(token))

luminance_of(ch) ==
    IF ~ch.ok THEN 0
    ELSE (2126 * Linear(ch.rgb[1]) + 7152 * Linear(ch.rgb[2])
            + 722 * Linear(ch.rgb[3])) \div 1000

\* Luminance in units of 10^-6.
relative_luminance(token) == luminance_of(parse_channels(token))

\* hex_color[-2:]
last_two(s) == SubSeq(s, IF Len(s) > 2 THEN Len(s) - 1 ELSE 1, Len(s))

normalized(b) == IF b.ok THEN (b.val * 1000000) \div 255 ELSE 0

\* The blue term of estimate_carbon_intensity, in units of 10^-6.
blue_term(token) == normalized(int(last_two(expand(lstrip_marker(token))), 16))

Baseline == 10 * 1000000
One == 100 * 1000000

min(a, b) == IF a <= b THEN a ELSE b

\* Carbon intensity in units of 10^-8.
estimate_carbon_intensity(token) ==
    min(65 * relative_luminance(token) + 25 * blue_term(token) + Baseline, One)

----------------------------------------------------------------------------
(* Colour parser: extract_colors_from_css.                                  *)

RECURSIVE HexRunLen(_, _, _)
HexRunLen(text, j, n) ==
    IF n < 6 /\ j <= Len(text) /\ IsHexDigit(text[j])
    THEN HexRunLen(text, j + 1, n + 1)
    ELSE n

\* re.findall(r'#[0-9A-Fa-f]{1,6}', text): leftmost, greedy, non-overlapping.
RECURSIVE FindHex(_, _)
FindHex(text, i) ==
    IF i > Len(text) THEN <<>>
    ELSE IF text[i] = "#" /\ HexRunLen(text, i + 1, 0) >= 1
    THEN LET n == HexRunLen(text, i + 1, 0)
         IN  <<SubSeq(text, i, i + n)>> \o FindHex(text, i + n + 1)
    ELSE FindHex(text, i + 1)

findall_hex(text) == FindHex(text, 1)

\* The position of the first ")" at or after j that no newline precedes; 0 if none
\* ("." does not match a newline).
RECURSIVE ClosePos(_, _)
ClosePos(text, j) ==
    IF j > Len(text) \/ text[j] = "\n" THEN 0
    ELSE IF text[j] = ")" THEN j
    ELSE ClosePos(text, j + 1)

\* re.findall(r'rgb\((.*?)\)', text): the groups, the non-greedy ".*?" ending at
\* the first ")".
RECURSIVE FindRgb(_, _)
FindRgb(text, i) ==
    IF i + 3 > Len(text) THEN <<>>
    ELSE IF SubSeq(text, i, i + 3) = <<"r", "g", "b", "(">> /\ ClosePos(text, i + 4) > 0
    THEN LET p == ClosePos(text, i + 4)
         IN  <<SubSeq(text, i + 4, p - 1)>> \o FindRgb(text, p + 1)
    ELSE FindRgb(text, i + 1)

findall_rgb(text) == FindRgb(text, 1)

RECURSIVE IndexOf(_, _, _)
IndexOf(s, c, i) ==
    IF i > Len(s) THEN 0 ELSE IF s[i] = c THEN i ELSE IndexOf(s, c, i + 1)

\* s.split(sep)
RECURSIVE split(_, _)
split(s, sep) ==
    LET p == IndexOf(s, sep, 1)
    IN  IF p = 0 THEN <<s>>
        ELSE <<SubSeq(s, 1, p - 1)>> \o split(SubSeq(s, p + 1, Len(s)), sep)

Range(f) == {f[i] : i \in DOMAIN f}

\* len(h) in (4, 7)
valid_length(h) == Len(h) \in {4, 7}

format_ok(t) == IF t.ok THEN [ok |-> TRUE, val |-> format_hex(t.rgb)] ELSE t

parse_parts(parts) ==
    IF Len(parts) = 3 THEN to_rgb([i \in 1..3 |-> int(parts[i], 10)]) ELSE [ok |-> FALSE]

\* The try body of the rgb loop: [ok |-> FALSE] where it raises (the unpacking of
\* other than three values, or int() of a component).
rgb_to_hex(group) == format_ok(parse_parts(split(group, ",")))

\* The tokens a list of hex matches and a list of rgb groups give.
tokens_of(hexes, groups) ==
    {strip(h) : h \in {x \in Range(hexes) : valid_length(strip(x))}}
        \cup {rgb_to_hex(m).val : m \in {x \in Range(groups) : rgb_to_hex(x).ok}}

\* extract_colors_from_css as a function of its text: the set of its result list.
extract_colors_from_css(css_text) ==
    tokens_of(findall_hex(css_text), findall_rgb(css_text))

\* The pieces CSS texts are made of.
CssItems == {
    <<"#", "f", "f", "f">>,
    <<"#", "0", "0", "0", "0", "0", "0">>,
    <<"#", "1", "2", "3", "4", "5">>,
    <<"#", "A", "b", "C">>,
    <<"#", "1", "2", "3", "4", "5", "6", "7">>,
    <<"#", "g", "0">>,
    <<"f">>,
    <<";">>,
    <<")">>,
    <<"r", "g", "b", "(", "0", ",", "0", ",", "0", ")">>,
    <<"r", "g", "b", "(", "2", "5", "5", ",", " ", "1", "0", ",", "1", "7", "1", ")">>,
    <<"r", "g", "b", "(", "3", "0", "0", ",", "0", ",", "0", ")">>,
    <<"r", "g", "b", "(", "0", ",", "0", ",", "-", "5", ")">>,
    <<"r", "g", "b", "(", "x", ",", "0", ",", "0", ")">>,
    <<"r", "g", "b", "(", "1", ",", "2", ")">>,
    <<"r", "g", "b", "(", "1", ",", "2", ",", "3", ",", "4", ")">>,
    <<"r", "g", "b", "(", "1", ".", "5", ",", "0", ",", "0", ")">>,
    <<"r", "g", "b", "(", "#", "f", "f", "f", ",", "0", ",", "0", ")">>,
    <<"r", "g", "b", "(", "0", ",", "0", ",", "0">>,
    <<"r", "g", "b", "(", "0", ",", "\n", "0", ",", "0", ")">>,
    <<"r", "g", "b", "(", ")">>,
    <<"r", "g", "b", "(", " ", "7", " ", ",", "+", "8", ",", "0", "_", "9", ")">>
    }

RECURSIVE Concat(_)
Concat(ss) == IF ss = <<>> THEN <<>> ELSE Head(ss) \o Concat(Tail(ss))

CssTexts ==
    {Concat(ss) : ss \in UNION {[1..n -> CssItems] : n \in 0..MaxItems}}

----------------------------------------------------------------------------
(* extract_colors_from_css, step by step.                                   *)

Idle ==
    /\ hex_color = NoText
    /\ raw_hex = <<>>
    /\ rgb_colors = <<>>
    /\ valid_hex = <<>>
    /\ response = NoValue
    /\ colors = EmptyBag
    /\ k = 0
    /\ fetchLog = <<>>
    /\ ret = NoValue

InitParser ==
    /\ fn = "extract_colors_from_css"
    /\ pc = "findall"
    /\ arg \in CssTexts
    /\ Idle

FindAll ==
    /\ pc = "findall"
    /\ raw_hex' = findall_hex(arg)
    /\ rgb_colors' = findall_rgb(arg)
    /\ valid_hex' = <<>>
    /\ k' = 1
    /\ pc' = "hex_loop"
    /\ UNCHANGED <<fn, arg, ret, hex_color, response, colors, fetchLog>>

ValidateHex ==
    /\ pc = "hex_loop"
    /\ k <= Len(raw_hex)
    /\ LET h == strip(raw_hex[k])
       IN  valid_hex' = IF valid_length(h) THEN Append(valid_hex, h) ELSE valid_hex
    /\ k' = k + 1
    /\ UNCHANGED <<fn, pc, arg, ret, hex_color, raw_hex, rgb_colors, response, colors, fetchLog>>

HexLoopEnd ==
    /\ pc = "hex_loop"
    /\ k > Len(raw_hex)
    /\ pc' = "rgb_loop"
    /\ k' = 1
    /\ UNCHANGED <<fn, arg, ret, hex_color, raw_hex, rgb_colors, valid_hex, response, colors, fetchLog>>

ConvertRgb ==
    /\ pc = "rgb_loop"
    /\ k <= Len(rgb_colors)
    /\ rgb_to_hex(rgb_colors[k]).ok
    /\ valid_hex' = Append(valid_hex, rgb_to_hex(rgb_colors[k]).val)
    /\ k' = k + 1
    /\ UNCHANGED <<fn, pc, arg, ret, hex_color, raw_hex, rgb_colors, response, colors, fetchLog>>

SkipRgb_propagate ==
    /\ pc = "rgb_loop"
    /\ k <= Len(rgb_colors)
    /\ ~rgb_to_hex(rgb_colors[k]).ok
    /\ pc' = "raised"
    /\ ret' = [kind |-> "raised", exc |-> "ValueError"]
    /\ UNCHANGED <<fn, arg, hex_color, raw_hex, rgb_colors, valid_hex, response, colors, k, fetchLog>>

\* except: pass
SkipRgb ==
    /\ pc = "rgb_loop"
    /\ k <= Len(rgb_colors)
    /\ ~rgb_to_hex(rgb_colors[k]).ok
    /\ k' = k + 1
    /\ UNCHANGED <<fn, pc, arg, ret, hex_color, raw_hex, rgb_colors, valid_hex, response, colors, fetchLog>>

ReturnColors ==
    /\ pc = "rgb_loop"
    /\ k > Len(rgb_colors)
    /\ ret' = [kind |-> "list", items |-> Range(valid_hex)]
    /\ pc' = "done"
    /\ UNCHANGED <<fn, arg, hex_color, raw_hex, rgb_colors, valid_hex, response, colors, k, fetchLog>>

NextParser ==
    \/ FindAll
    \/ ValidateHex
    \/ HexLoopEnd
    \/ ConvertRgb
    \/ SkipRgb
    \/ ReturnColors

SpecParser == InitParser /\ [][NextParser]_vars

----------------------------------------------------------------------------
(* relative_luminance and estimate_carbon_intensity on one token.           *)

Channels == (0 - NegChan)..MaxChan
Probe == {-5, 0, 16, 255, 300}

\* (r, g, b) triples: one component over the whole range, two probed.
RgbInputs ==
    {[kind |-> "rgb", rgb |-> <<c, p, q>>] : c \in Channels, p \in Probe, q \in Probe}
        \cup {[kind |-> "rgb", rgb |-> <<p, c, q>>] : c \in Channels, p \in Probe, q \in Probe}
        \cup {[kind |-> "rgb", rgb |-> <<p, q, c>>] : c \in Channels, p \in Probe, q \in Probe}

\* Tokens handed over as they are.
RawCores == {
    <<"#", "f", "f", "f", "f", "f", "f">>,
    <<"#", "0", "0", "0", "0", "0", "0">>,
    <<"#", "a", "a", "b", "b", "c", "c">>,
    <<"#", "1", "2", "3", "4", "5", "6">>,
    <<"#", "f", "f", "f">>,
    <<"#", "a", "b", "c">>,
    <<"#", "1", "2", "3", "4", "5">>,
    <<"#", "1", "2", "3", "4", "5", "6", "7">>,
    <<"#", "0", "0", "0", "0", "1", "2", "c">>,
    <<"#", "-", "5", "0", "0", "0", "0">>,
    <<"#", "g", "g", "g">>,
    <<"#">>,
    <<"#", "f">>,
    <<"#", "0", "x", "0", "x", "0", "x">>,
    <<"#", "#", "0", "0", "f", "f", "0", "0">>
    }
\* Whitespace around a raw token.
Pads == {
    <<>>,
    <<" ">>,
    <<"\t">>,
    <<"\n">>,
    <<" ", " ">>
    }

RawInputs ==
    {[kind |-> "raw", pre |-> a, core |-> t, post |-> b] : a \in Pads, t \in RawCores, b \in Pads}

InitColor ==
    /\ fn = "estimate_carbon_intensity"
    /\ pc = "input"
    /\ arg \in RgbInputs \cup RawInputs
    /\ Idle

\* The token an (r, g, b) triple is formatted to (rgb() branch of the parser,
\* palette loop of the image extractor).
FormatRgb ==
    /\ pc = "input"
    /\ arg.kind = "rgb"
    /\ hex_color' = format_hex(arg.rgb)
    /\ pc' = "token"
    /\ UNCHANGED <<fn, arg, ret, raw_hex, rgb_colors, valid_hex, response, colors, k, fetchLog>>

RawToken ==
    /\ pc = "input"
    /\ arg.kind = "raw"
    /\ hex_color' = arg.pre \o arg.core \o arg.post
    /\ pc' = "token"
    /\ UNCHANGED <<fn, arg, ret, raw_hex, rgb_colors, valid_hex, response, colors, k, fetchLog>>

CallRelativeLuminance ==
    /\ pc = "token"
    /\ ret' = [kind |-> "luminance",
               channels |-> parse_channels(hex_color),
               luminance |-> relative_luminance(hex_color)]
    /\ pc' = "luminance"
    /\ UNCHANGED <<fn, arg, hex_color, raw_hex, rgb_colors, valid_hex, response, colors, k, fetchLog>>

CallEstimate ==
    /\ pc = "luminance"
    /\ ret' = [kind |-> "score",
               channels |-> ret.channels,
               luminance |-> ret.luminance,
               blue |-> blue_term(hex_color),
               score |-> estimate_carbon_intensity(hex_color)]
    /\ pc' = "done"
    /\ UNCHANGED <<fn, arg, hex_color, raw_hex, rgb_colors, valid_hex, response, colors, k, fetchLog>>

NextColor ==
    \/ FormatRgb
    \/ RawToken
    \/ CallRelativeLuminance
    \/ CallEstimate

SpecColor == InitColor /\ [][NextColor]_vars

----------------------------------------------------------------------------
(* calculate_digital_carbon and calculate_image_carbon.                     *)

FetchFailedMsg == "Failed to fetch the website."
NoColorsMsg == "No valid CSS colors found."

\* Values of style attributes (the empty one: a tag without).
StyleTexts == {
    <<>>,
    <<"c", "o", "l", "o", "r", ":", "#", "f", "f", "f">>,
    <<"#", "0", "0", "0", "0", "0", "0", ";", "#", "f", "f", "f">>,
    <<"r", "g", "b", "(", "0", ",", "0", ",", "0", ")">>,
    <<"r", "g", "b", "(", "0", ",", "0", ",", "-", "5", ")">>,
    <<"#", "1", "2", "3", "4", "5">>
    }
\* Bodies of linked stylesheets.
SheetTexts == {
    <<>>,
    <<"a", "{", "c", "o", "l", "o", "r", ":", "#", "F", "F", "F", "}">>,
    <<"#", "f", "f", "f", ";", "r", "g", "b", "(", "0", ",", " ", "0", ",", "0", ")">>,
    <<"r", "g", "b", "(", "x", ",", "0", ",", "0", ")", "#", "1", "2", "3", "4", "5", "6">>
    }

\* Palette entries of a quantized image.
PaletteColors == {<<0, 0, 0>>, <<255, 255, 255>>, <<18, 52, 86>>}

\* " ".join(...)
RECURSIVE join(_, _)
join(ss, sep) ==
    IF ss = <<>> THEN <<>>
    ELSE IF Len(ss) = 1 THEN ss[1]
    ELSE ss[1] \o sep \o join(Tail(ss), sep)

RECURSIVE SumScores(_, _)
SumScores(S, bag) ==
    IF S = {} THEN 0
    ELSE LET c == CHOOSE x \in S : TRUE
         IN  bag[c] * estimate_carbon_intensity(c) + SumScores(S \ {c}, bag)

\* list(set(colors))
dedupe(bag) == SetToBag(BagToSet(bag))

\* The data loop, the DataFrame and the mean: one row per element of the list;
\* total_score in units of 10^-6 percent. An empty frame has no
\* "carbon_intensity" column.
build_report(bag) ==
    IF bag = EmptyBag
    THEN [kind |-> "raised", exc |-> "KeyError"]
    ELSE [kind |-> "report",
          df |-> [row \in {[color |-> c, carbon_intensity |-> estimate_carbon_intensity(c)] :
                              c \in BagToSet(bag)} |-> bag[row.color]],
          total_score |-> SumScores(BagToSet(bag), bag) \div BagCardinality(bag)]

Init ==
    /\ fn = "none"
    /\ pc = "idle"
    /\ arg = NoValue
    /\ Idle

RootFetchFails_fall_through ==
    /\ pc = "idle"
    /\ fn' = "calculate_digital_carbon"
    /\ response' = [kind |-> "exception"]
    /\ colors' = EmptyBag
    /\ k' = 1
    /\ pc' = "stylesheets"
    /\ UNCHANGED <<arg, ret, hex_color, raw_hex, rgb_colors, valid_hex, fetchLog>>

\* requests.get(url) raises
RootFetchFails ==
    /\ pc = "idle"
    /\ fn' = "calculate_digital_carbon"
    /\ response' = [kind |-> "exception"]
    /\ ret' = [kind |-> "tuple", df |-> None, total_score |-> None, error |-> Some(FetchFailedMsg)]
    /\ pc' = "done"
    /\ UNCHANGED <<arg, hex_color, raw_hex, rgb_colors, valid_hex, colors, k, fetchLog>>

inline_css(page) == join(page.styles, <<" ">>)

links_of(page) == IF page.kind = "page" THEN page.links ELSE 0

\* The root page arrives: inline styles are parsed, the links collected.
RootFetchOk ==
    /\ pc = "idle"
    /\ fn' = "calculate_digital_carbon"
    /\ \E styles \in UNION {[1..n -> StyleTexts] : n \in 0..MaxTags}, links \in 0..MaxLinks :
          /\ response' = [kind |-> "page", styles |-> styles, links |-> links]
          /\ colors' = SetToBag(extract_colors_from_css(join(styles, <<" ">>)))
    /\ k' = 1
    /\ pc' = "stylesheets"
    /\ UNCHANGED <<arg, ret, hex_color, raw_hex, rgb_colors, valid_hex, fetchLog>>

StylesheetFetchOk ==
    /\ pc = "stylesheets"
    /\ k <= links_of(response)
    /\ \E css \in SheetTexts :
          /\ colors' = colors (+) SetToBag(extract_colors_from_css(css))
          /\ fetchLog' = Append(fetchLog, [ok |-> TRUE, css |-> css])
    /\ k' = k + 1
    /\ UNCHANGED <<fn, pc, arg, ret, hex_color, raw_hex, rgb_colors, valid_hex, response>>

StylesheetFetchFails_abort ==
    /\ pc = "stylesheets"
    /\ k <= links_of(response)
    /\ fetchLog' = Append(fetchLog, [ok |-> FALSE, css |-> NoText])
    /\ k' = links_of(response) + 1
    /\ UNCHANGED <<fn, pc, arg, ret, hex_color, raw_hex, rgb_colors, valid_hex, response, colors>>

\* except: pass
StylesheetFetchFails ==
    /\ pc = "stylesheets"
    /\ k <= links_of(response)
    /\ fetchLog' = Append(fetchLog, [ok |-> FALSE, css |-> NoText])
    /\ k' = k + 1
    /\ UNCHANGED <<fn, pc, arg, ret, hex_color, raw_hex, rgb_colors, valid_hex, response, colors>>

website_result_unchecked(bag) ==
    LET rep == build_report(bag)
    IN  IF rep.kind = "raised" THEN rep
        ELSE [kind |-> "tuple", df |-> Some(rep.df), total_score |-> Some(rep.total_score),
              error |-> None]

\* From "if not colors" to the return.
website_result(bag) ==
    IF bag = EmptyBag
    THEN [kind |-> "tuple", df |-> None, total_score |-> None, error |-> Some(NoColorsMsg)]
    ELSE LET rep == build_report(bag)
         IN  [kind |-> "tuple", df |-> Some(rep.df), total_score |-> Some(rep.total_score),
              error |-> None]

Aggregate ==
    /\ pc = "stylesheets"
    /\ k > links_of(response)
    /\ colors' = dedupe(colors)
    /\ ret' = website_result(colors')
    /\ pc' = "done"
    /\ UNCHANGED <<fn, arg, hex_color, raw_hex, rgb_colors, valid_hex, response, k, fetchLog>>

\* extract_colors_from_image: the palette entries in use, formatted, as a set.
ExtractImage ==
    /\ pc = "idle"
    /\ fn' = "calculate_image_carbon"
    /\ \E palette \in UNION {[1..n -> PaletteColors] : n \in 1..MaxPalette} :
          /\ arg' = palette
          /\ colors' = SetToBag({format_hex(palette[i]) : i \in DOMAIN palette})
    /\ pc' = "image_colors"
    /\ UNCHANGED <<ret, hex_color, raw_hex, rgb_colors, valid_hex, response, k, fetchLog>>

image_result(bag) ==
    LET rep == build_report(bag)
    IN  IF rep.kind = "raised" THEN rep
        ELSE [kind |-> "tuple", df |-> Some(rep.df), total_score |-> Some(rep.total_score)]

AggregateImage ==
    /\ pc = "image_colors"
    /\ ret' = image_result(colors)
    /\ pc' = "done"
    /\ UNCHANGED <<fn, arg, hex_color, raw_hex, rgb_colors, valid_hex, response, colors, k, fetchLog>>

Next ==
    \/ RootFetchFails
    \/ RootFetchOk
    \/ StylesheetFetchOk
    \/ StylesheetFetchFails
    \/ Aggregate
    \/ ExtractImage
    \/ AggregateImage

Spec == Init /\ [][Next]_vars

----------------------------------------------------------------------------
(* Properties.                                                              *)

IsColorToken(t) ==
    /\ Len(t) \in {4, 7}
    /\ t[1] = "#"
    /\ \A i \in 2..Len(t) : IsHexDigit(t[i])

IsValid6(t) == IsColorToken(t) /\ Len(t) = 7

InByteRange(rgb) == \A i \in 1..3 : rgb[i] \in 0..255

WellFormed(group) == rgb_to_hex(group).ok

\* The colours of the inline styles and of the stylesheets fetched so far.
GatheredColors ==
    extract_colors_from_css(inline_css(response))
        \cup UNION {extract_colors_from_css(fetchLog[i].css) :
                      i \in {j \in DOMAIN fetchLog : fetchLog[j].ok}}

\* C1: the score estimate_carbon_intensity returns is never below the 0.10
\* baseline and never above 1.0, whatever the token, tokens formatted from
\* rgb(...) components that are negative or above 255 included.
C1_ScoreInRange ==
    (fn = "estimate_carbon_intensity" /\ pc = "done")
        => (Baseline <= ret.score /\ ret.score <= One)

\* C2: every element extract_colors_from_css returns is "#" followed by exactly
\* 3 or exactly 6 hex digits, whether it came from a hex match or from an
\* rgb(r, g, b) match with any integer components.
C2_TokensValid ==
    (fn = "extract_colors_from_css" /\ pc = "done")
        => \A t \in ret.items : IsColorToken(t)

\* C3: once the root page is fetched, the colour list holds exactly the colours
\* of the inline styles and of the stylesheets whose fetch succeeded; a failed
\* fetch removes nothing and the loop goes on to every later stylesheet.
C3_PartialSuccess ==
    (fn = "calculate_digital_carbon" /\ response.kind = "page")
        => /\ BagToSet(colors) = GatheredColors
           /\ pc = "stylesheets" => Len(fetchLog) = k - 1
           /\ pc = "done" => Len(fetchLog) = response.links

C3_Witness ==
    /\ fn = "calculate_digital_carbon"
    /\ pc = "done"
    /\ response.kind = "page"
    /\ extract_colors_from_css(inline_css(response)) # {}
    /\ \E i, j \in DOMAIN fetchLog :
          /\ i < j
          /\ ~fetchLog[i].ok
          /\ fetchLog[j].ok
          /\ ~(extract_colors_from_css(fetchLog[j].css)
                  \subseteq extract_colors_from_css(inline_css(response)))

\* C4: an analysis that reaches aggregation never crashes; with an empty colour
\* set it returns no table and no score (the website analysis with the no-data
\* message), and a table and a score come only with a non-empty colour set, both
\* together and without an error.
C4_EmptyIsNoData ==
    (pc = "done" /\ response.kind # "exception")
        => /\ ret.kind = "tuple"
           /\ colors = EmptyBag
                => /\ ~ret.df.some
                   /\ ~ret.total_score.some
                   /\ fn = "calculate_digital_carbon" => ret.error = Some(NoColorsMsg)
           /\ (ret.df.some \/ ret.total_score.some)
                => /\ colors # EmptyBag
                   /\ ret.df.some
                   /\ ret.total_score.some
                   /\ fn = "calculate_digital_carbon" => ret.error = None

C4_Witness ==
    /\ fn = "calculate_digital_carbon"
    /\ pc = "done"
    /\ response.kind = "page"
    /\ response.styles # <<>>
    /\ \E i \in DOMAIN fetchLog : fetchLog[i].ok
    /\ colors = EmptyBag
    /\ ret.error = Some(NoColorsMsg)

\* C5: a failed root fetch ends the analysis at once: no stylesheet is fetched,
\* no table and no score are returned, and the message is the fetch-failure one,
\* which differs from the no-data message; the no-data message is returned only
\* after a successful root fetch that found no colour.
C5_RootFailureIsTerminal ==
    /\ FetchFailedMsg # NoColorsMsg
    /\ response.kind = "exception"
          => /\ pc = "done"
             /\ fetchLog = <<>>
             /\ ret.kind = "tuple"
             /\ ~ret.df.some
             /\ ~ret.total_score.some
             /\ ret.error = Some(FetchFailedMsg)
    /\ (fn = "calculate_digital_carbon" /\ ret.kind = "tuple" /\ ret.error = Some(NoColorsMsg))
          => (response.kind = "page" /\ colors = EmptyBag)

C5_Witness ==
    /\ response.kind = "exception"
    /\ pc = "done"
    /\ ret.error = Some(FetchFailedMsg)

RECURSIVE SumRows(_, _)
SumRows(rows, df) ==
    IF rows = {} THEN 0
    ELSE LET row == CHOOSE x \in rows : TRUE
         IN  df[row] * row.carbon_intensity + SumRows(rows \ {row}, df)

\* The Report over distinct tokens, without the range of total_score.
ReportOverDistinct ==
    (fn = "calculate_digital_carbon" /\ pc = "done" /\ ret.kind = "tuple" /\ ret.df.some)
        => LET df == ret.df.val
           IN  /\ \A row \in DOMAIN df : df[row] = 1
               /\ {row.color : row \in DOMAIN df} = GatheredColors
               /\ \A row \in DOMAIN df :
                     row.carbon_intensity = estimate_carbon_intensity(row.color)
               /\ ret.total_score.val = SumRows(DOMAIN df, df) \div Cardinality(DOMAIN df)

\* C6: the Report holds exactly one sample per distinct token, however often
\* and in however many fragments the token occurs, and total_score is 100 times
\* the mean of the samples' intensities, a value in [10, 100].
C6_ReportAndRange ==
    /\ ReportOverDistinct
    /\ (fn = "calculate_digital_carbon" /\ pc = "done" /\ ret.kind = "tuple" /\ ret.df.some)
          => (Baseline <= ret.total_score.val /\ ret.total_score.val <= One)

\* C7: extract_colors_from_css never raises, and a malformed rgb(...) match is
\* skipped alone: at every point of the rgb loop, and at the return, the list
\* holds exactly the tokens that the hex matches and the well-formed rgb matches
\* seen so far give, as if the malformed ones were absent.
C7_MalformedSkippedAlone ==
    fn = "extract_colors_from_css"
        => /\ pc # "raised"
           /\ ret.kind # "raised"
           /\ pc = "rgb_loop"
                => Range(valid_hex)
                     = tokens_of(raw_hex, SelectSeq(SubSeq(rgb_colors, 1, k - 1), WellFormed))
           /\ pc = "done"
                => ret.items = tokens_of(raw_hex, SelectSeq(rgb_colors, WellFormed))

C7_Witness ==
    /\ fn = "extract_colors_from_css"
    /\ pc = "done"
    /\ \E i, j \in DOMAIN rgb_colors :
          /\ i < j
          /\ ~WellFormed(rgb_colors[i])
          /\ WellFormed(rgb_colors[j])
          /\ rgb_to_hex(rgb_colors[j]).val \in ret.items
    /\ \E h \in Range(raw_hex) : h \in ret.items

\* C8 as stated: relative_luminance of a valid 6-digit token with whitespace
\* prepended and/or appended equals relative_luminance of the token.
C8_WhitespaceInvariant ==
    (fn = "estimate_carbon_intensity" /\ pc \in {"luminance", "done"}
        /\ arg.kind = "raw" /\ IsValid6(arg.core))
        => ret.luminance = relative_luminance(arg.core)

\* C8, amended: relative_luminance strips leading "#" only, not whitespace: a
\* valid 6-digit token with any whitespace prepended and/or appended has a body
\* of another length than 3 or 6 and gets the fallback luminance 0.0.
C8_WhitespaceFallsBack ==
    (fn = "estimate_carbon_intensity" /\ pc \in {"luminance", "done"}
        /\ arg.kind = "raw" /\ IsValid6(arg.core)
        /\ (arg.pre # <<>> \/ arg.post # <<>>))
        => (~ret.channels.ok /\ ret.luminance = 0)

C8_Witness ==
    /\ fn = "estimate_carbon_intensity"
    /\ pc = "done"
    /\ arg.kind = "raw"
    /\ arg.core = <<"#", "f", "f", "f", "f", "f", "f">>
    /\ arg.pre = <<" ">>
    /\ arg.post = <<>>
    /\ ret.luminance = 0
    /\ relative_luminance(arg.core) = 1000000

\* C9: for all r, g, b in [0, 255] the format '#{:02x}{:02x}{:02x}' gives a
\* 7-character token, and the channel parser of relative_luminance reads
\* exactly (r, g, b) back from it.
C9_RoundTrip ==
    (fn = "estimate_carbon_intensity" /\ arg.kind = "rgb" /\ InByteRange(arg.rgb))
        => /\ pc # "input" => Len(hex_color) = 7
           /\ pc \in {"luminance", "done"}
                => (ret.channels.ok /\ ret.channels.rgb = arg.rgb)

C9_Witness ==
    /\ fn = "estimate_carbon_intensity"
    /\ pc = "done"
    /\ arg.kind = "rgb"
    /\ arg.rgb = <<5, 255, 16>>
    /\ hex_color = <<"#", "0", "5", "f", "f", "1", "0">>
    /\ ret.channels.rgb = <<5, 255, 16>>

\* C10: for every token whose body after the leading marker is not exactly 3
\* or exactly 6 hex digits, the blue term is 0 and the score is exactly the
\* 0.10 baseline.
C10_BlueFallback ==
    (fn = "estimate_carbon_intensity" /\ pc = "done"
        /\ ~IsColorToken(<<"#">> \o lstrip_marker(hex_color)))
        => (ret.blue = 0 /\ ret.score = Baseline)

====
